---------------------------- MODULE Spec2Model ----------------------------
(***************************************************************************)
(* Audit sample selection: the worker's cleaner (cleaner.py), the sampling *)
(* engine in batch and streaming mode (sampler.py) and the parameters      *)
(* (models.py).                                                            *)
(*                                                                         *)
(* Amounts are Python floats.  A float is modelled as a record             *)
(*   [k |-> "fin", v |-> n]   the finite value n (an integer),             *)
(*   [k |-> "inf", v |-> s]   s * infinity, s in {1, -1},                  *)
(*   [k |-> "nan", v |-> 0]   not-a-number,                                *)
(*   [k |-> "big", v |-> n]   the finite value 2^53 + n,                   *)
(* and Python's None as [k |-> "none", v |-> 0].  float() accepts the      *)
(* texts "nan" and "inf", so all of these reach the engine.  Arithmetic on *)
(* the values of kind "fin" is exact (each is an integer far below 2^53).  *)
(* From 2^53 on a double holds the even integers only, and a sum is        *)
(* rounded to the nearest of them, a tie to the one whose half is even;    *)
(* the model holds at most one value of kind "big" per file, and it is     *)
(* above every interval.  The sampling interval is the exact quotient      *)
(* num/den.                                                                *)
(***************************************************************************)
EXTENDS Integers, Sequences, FiniteSets, TLC

VARIABLES
    params,        \* the SamplingParameters of the session
    rows,          \* the population CSV: the sequence of its data rows
    cleaned,       \* clean_data's result: [done, records, report]
    batch,         \* result of the last generate_sample call
    batchPrev,     \* result of the generate_sample call before it
    stream,        \* locals of the generate_sample_streaming call in progress
    streamRes,     \* result of the last generate_sample_streaming call
    streamPrev,    \* result of the generate_sample_streaming call before it
    pstate,        \* where the parameters are: "api", "queued", "cli",
                   \* "constructed" or "rejected"
    interval_result, \* <<r>> once sampling_interval() was called and gave r
    store,         \* the REST API's storage root: the job directories
    queue,         \* JobManager.queue: the ids of the jobs waiting for the worker
    worker,        \* JobManager._worker_task and the job it is running
    returncode,    \* per job, how its subprocess.run call ended
    status_log,    \* per job, the statuses written to its metadata.json
    faults,        \* the number of failed writes so far
    response       \* the last HTTP response of a job query

vars == <<params, rows, cleaned, batch, batchPrev, stream, streamRes, streamPrev,
          pstate, interval_result,
          store, queue, worker, returncode, status_log, faults, response>>

\* the variables of the worker command line's session
session_vars == <<params, rows, cleaned, batch, batchPrev, stream, streamRes,
                  streamPrev, pstate, interval_result>>

\* the variables of the REST API
api_vars == <<store, queue, worker, returncode, status_log, faults, response>>

\* the variables of the engine
engine_vars == <<rows, cleaned, batch, batchPrev, stream, streamRes, streamPrev>>

-----------------------------------------------------------------------------
(* Bounds of the model *)

MaxRows == 3

-----------------------------------------------------------------------------
(* Python values *)

None == [k |-> "none", v |-> 0]
Fin(n) == [k |-> "fin", v |-> n]
NaN == [k |-> "nan", v |-> 0]
Inf(s) == [k |-> "inf", v |-> s]
Big(n) == [k |-> "big", v |-> n]

\* the double nearest to 2^53 + n, as the n of it: below 2^53 every integer
\* is a double, from 2^53 on the even ones, and a tie goes to the double
\* whose mantissa is even
RoundBig(n) ==
    IF n <= 0 \/ n % 2 = 0 THEN n
    ELSE IF (n + 1) % 4 = 0 THEN n + 1
    ELSE n - 1

IsNone(x) == x.k = "none"

Abs(n) == IF n < 0 THEN -n ELSE n

\* abs(x) of a float
FAbs(x) ==
    CASE x.k = "fin" -> Fin(Abs(x.v))
      [] x.k = "inf" -> Inf(1)
      [] x.k = "big" -> x
      [] OTHER -> NaN

\* x + y of two floats (an int 0 counts as the float 0)
FAdd(x, y) ==
    CASE x.k = "nan" \/ y.k = "nan" -> NaN
      [] x.k = "inf" /\ y.k = "inf" -> IF x.v = y.v THEN x ELSE NaN
      [] x.k = "inf" -> x
      [] y.k = "inf" -> y
      [] x.k = "big" /\ y.k = "fin" -> Big(RoundBig(x.v + y.v))
      [] x.k = "fin" /\ y.k = "big" -> Big(RoundBig(x.v + y.v))
      [] x.k = "fin" /\ y.k = "fin" -> Fin(x.v + y.v)

FNeg(x) ==
    CASE x.k = "nan" -> NaN
      [] x.k \in {"fin", "inf"} -> [k |-> x.k, v |-> -x.v]

\* x - y of two floats; the difference of two values from 2^53 on is exact
FSub(x, y) ==
    CASE x.k = "big" /\ y.k = "big" -> Fin(x.v - y.v)
      [] x.k = "big" /\ y.k = "fin" -> Big(RoundBig(x.v - y.v))
      [] OTHER -> FAdd(x, FNeg(y))

\* x > 0, x < 0, x == 0 of a float: every comparison with nan is False
FGt0(x) == x.k = "big" \/ (x.k # "nan" /\ x.v > 0)
FLt0(x) == x.k \notin {"nan", "big"} /\ x.v < 0
FEq0(x) == x.k = "fin" /\ x.v = 0
FGe0(x) == x.k = "big" \/ (x.k # "nan" /\ x.v >= 0)

\* x >= y of two floats
FGe(x, y) ==
    CASE x.k = "nan" \/ y.k = "nan" -> FALSE
      [] x.k = "inf" -> x.v > 0 \/ (y.k = "inf" /\ y.v < 0)
      [] y.k = "inf" -> y.v < 0
      [] OTHER -> x.v >= y.v

\* x / y of two floats, y # 0, as a quotient [k, num, den] with den > 0:
\* finite / infinite is 0, infinite / infinite is nan
FDiv(x, y) ==
    CASE x.k = "nan" \/ y.k = "nan" -> [k |-> "nan", num |-> 0, den |-> 1]
      [] x.k = "inf" /\ y.k = "inf" -> [k |-> "nan", num |-> 0, den |-> 1]
      [] x.k = "inf" ->
           [k |-> "inf", num |-> IF y.v < 0 THEN -x.v ELSE x.v, den |-> 1]
      [] y.k = "inf" -> [k |-> "fin", num |-> 0, den |-> 1]
      [] OTHER ->
           IF y.v < 0 THEN [k |-> "fin", num |-> -x.v, den |-> -y.v]
           ELSE [k |-> "fin", num |-> x.v, den |-> y.v]

\* a float as a quotient
Quotient(x) == [k |-> x.k, num |-> x.v, den |-> 1]

\* x > r for a float x and a finite positive quotient r = num/den
FGtQ(x, r) ==
    CASE r.k = "nan" -> FALSE
      [] r.k = "inf" -> r.num < 0 /\ x.k # "nan" /\ ~(x.k = "inf" /\ x.v < 0)
      [] x.k = "fin" -> x.v * r.den > r.num
      [] x.k = "inf" -> x.v > 0
      [] x.k = "big" -> TRUE
      [] OTHER -> FALSE

\* the builtin sum(...) over a sequence of floats, left to right from 0
RECURSIVE SumFrom(_, _, _)
SumFrom(acc, s, i) ==
    IF i > Len(s) THEN acc ELSE SumFrom(FAdd(acc, s[i]), s, i + 1)

Sum(s) == SumFrom(Fin(0), s, 1)

\* [f(s[i]) : i in 1..Len(s)]
AmountsAbs(txns) == [i \in 1..Len(txns) |-> txns[i].amount_abs]

-----------------------------------------------------------------------------
(* models.py *)

BalanceTypes == {"debit", "credit", "both"}

\* mutant of validate_relationships: the comparison is missing
RelationshipsUnchecked(p) == TRUE

\* SamplingParameters.validate_relationships: no error is raised
validate_relationships(p) ==
    ~FGe(p.expected_misstatement, p.tolerable_misstatement)

\* SamplingParameters(...) succeeds: the Field constraints hold and
\* validate_relationships passes
SamplingParametersValid(p) ==
    /\ FGt0(p.tolerable_misstatement)
    /\ FGe0(p.expected_misstatement)
    /\ FGt0(p.assurance_factor)
    /\ p.balance_type \in BalanceTypes
    /\ (IsNone(p.high_value_override) \/ FGt0(p.high_value_override))
    /\ p.random_seed >= 0
    /\ validate_relationships(p)

\* restapi schemas.py: SamplingParams(...) succeeds.  The form field
\* include_zeros is the negation of exclude_zero_amounts.
SamplingParamsValid(p) ==
    /\ FGt0(p.tolerable_misstatement)
    /\ FGe0(p.expected_misstatement)
    /\ FGt0(p.assurance_factor)
    /\ p.balance_type \in BalanceTypes
    /\ (IsNone(p.high_value_override) \/ FGt0(p.high_value_override))
    /\ p.random_seed >= 0
    /\ ~FGe(p.expected_misstatement, p.tolerable_misstatement)

\* restapi jobs.py _build_cli_args: the values handed to the worker's
\* command line; --high-value is passed only for a truthy override
_build_cli_args(p) ==
    [p EXCEPT !.high_value_override =
        IF IsNone(@) \/ FEq0(@) THEN None ELSE @]

\* SamplingParameters.sampling_interval, as the quotient [k, num, den]
sampling_interval(p) ==
    IF ~IsNone(p.high_value_override)
    THEN Quotient(p.high_value_override)
    ELSE FDiv(FSub(p.tolerable_misstatement, p.expected_misstatement),
              p.assurance_factor)

\* CleanedTransaction.validate_amount_abs: the value is accepted
validate_amount_abs(value) == ~(~IsNone(value) /\ FLt0(value))

CleanedTransaction(tid, signed, abs_val, cat, sel, idx) ==
    [transaction_id |-> tid, amount_signed |-> signed, amount_abs |-> abs_val,
     balance_category |-> cat, selection_type |-> sel, source_row_index |-> idx]

SampleStatistics(size, bal, interval, hv, rnd, cov, pct, zero, balf) ==
    [population_size |-> size, population_balance_abs |-> bal,
     sampling_interval |-> interval, high_value_count |-> hv,
     random_sample_count |-> rnd, coverage_abs |-> cov,
     coverage_percent |-> pct, excluded_zero_amounts |-> zero,
     excluded_due_to_balance |-> balf]

-----------------------------------------------------------------------------
(* cleaner.py *)

\* _clean_string: a blank text or the text "none" is None
_clean_string(value) == IF value = "" \/ value = "none" THEN "None" ELSE value

\* _parse_amount.  The text of the amount column is one of: blank
\* (k = "blank"), a text float() rejects (k = "junk"), or a text float()
\* accepts, given by the float it yields.
_parse_amount(value) ==
    CASE value.k = "blank" -> [value |-> None, status |-> "missing"]
      [] value.k = "junk" -> [value |-> None, status |-> "invalid"]
      [] OTHER -> [value |-> value, status |-> "valid"]

\* _derive_balance
_derive_balance(amount) ==
    IF FGt0(amount) THEN "credit"
    ELSE IF FLt0(amount) THEN "debit"
    ELSE IF FEq0(amount) THEN "zero"
    ELSE "None"

\* _create_transaction: the record, or None when schema validation fails
_create_transaction(idx, txn_id, amount) ==
    IF validate_amount_abs(FAbs(amount))
    THEN <<CleanedTransaction(txn_id, amount, FAbs(amount),
                              _derive_balance(amount), "None", idx)>>
    ELSE <<>>

\* _process_single_row: <<record>> or <<>>; idx counts from 0
_process_single_row(idx, raw_row) ==
    IF IsNone(_parse_amount(raw_row.amount).value)
    THEN <<>>
    ELSE _create_transaction(idx, _clean_string(raw_row.transaction_id),
                             _parse_amount(raw_row.amount).value)

\* _process_rows
RECURSIVE ProcessFrom(_, _, _)
ProcessFrom(raw_rows, i, acc) ==
    IF i > Len(raw_rows) THEN acc
    ELSE ProcessFrom(raw_rows, i + 1, acc \o _process_single_row(i - 1, raw_rows[i]))

\* mutant of _process_rows: a record is numbered by its place among the
\* records kept
_process_rows_renumbered(raw_rows) ==
    LET kept == ProcessFrom(raw_rows, 1, <<>>)
    IN [j \in 1..Len(kept) |-> [kept[j] EXCEPT !.source_row_index = j - 1]]

_process_rows(raw_rows) == ProcessFrom(raw_rows, 1, <<>>)

CountStatus(raw_rows, status) ==
    Cardinality({i \in 1..Len(raw_rows) : _parse_amount(raw_rows[i].amount).status = status})

\* _build_quality_report: the counters about amounts
_build_quality_report(raw_rows, recs) ==
    [total_rows_raw |-> Len(raw_rows),
     total_rows_cleaned |-> Len(recs),
     missing_amount |-> CountStatus(raw_rows, "missing"),
     invalid_amount_format |-> CountStatus(raw_rows, "invalid"),
     excluded_due_to_amount |-> CountStatus(raw_rows, "missing") + CountStatus(raw_rows, "invalid")]

\* clean_data
clean_data(raw_rows) ==
    [done |-> TRUE,
     records |-> _process_rows(raw_rows),
     report |-> _build_quality_report(raw_rows, _process_rows(raw_rows))]

-----------------------------------------------------------------------------
(* The seeded generator random.Random(seed) of the standard library, as a  *)
(* deterministic generator: a multiplicative congruential sequence whose   *)
(* state is fixed by the seed alone.                                       *)

\* mutant of Random: one generator shared by the calls of a session, so
\* that a later call starts where the calls before it left the generator
RandomShared(seed) ==
    IF batch.status = "none" /\ streamRes.status = "none"
    THEN 1 + (seed % 30)
    ELSE 1 + ((seed + 7) % 30)

Random(seed) == 1 + (seed % 30)

RngNext(rng) == (rng * 3) % 31

\* rng._randbelow(n) for n >= 1: the value drawn (the state moves to RngNext)
RandBelow(rng, n) == RngNext(rng) % n

\* rng.randint(a, b)
RandInt(rng, a, b) == a + RandBelow(rng, b - a + 1)

\* rng.sample(population, k): k draws without replacement from a pool
RECURSIVE SampleFrom(_, _, _, _)
SampleFrom(pool, rng, k, result) ==
    IF k = 0 THEN result
    ELSE LET n == Len(pool)
             j == RandBelow(rng, n) + 1
             moved == [pool EXCEPT ![j] = pool[n]]
         IN SampleFrom(SubSeq(moved, 1, n - 1), RngNext(rng), k - 1,
                       Append(result, pool[j]))

RngSample(rng, population, k) == SampleFrom(population, rng, k, <<>>)

-----------------------------------------------------------------------------
(* sampler.py: the helpers of generate_sample *)

EpsNum == 9999
EpsDen == 10000

Min(a, b) == IF a < b THEN a ELSE b
Max(a, b) == IF a > b THEN a ELSE b

\* int((balance / interval) + 0.9999): int() raises on nan and on inf and
\* truncates toward zero.  With balance * den = q * num + r, 0 <= r < num,
\* the argument is q + (r * EpsDen + EpsNum * num) / (num * EpsDen).
IntPlusEps(balance, interval) ==
    CASE interval.k = "fin" /\ interval.num = 0 ->
           [error |-> "ZeroDivisionError", value |-> 0]
      [] balance.k = "nan" \/ interval.k = "nan" -> [error |-> "ValueError", value |-> 0]
      [] balance.k = "inf" /\ interval.k = "inf" -> [error |-> "ValueError", value |-> 0]
      [] balance.k = "inf" -> [error |-> "OverflowError", value |-> 0]
      [] interval.k = "inf" -> [error |-> "", value |-> 0]
      [] balance.k = "fin" /\ interval.k = "fin" ->
           LET q == (balance.v * interval.den) \div interval.num
               r == (balance.v * interval.den) % interval.num
               fnum == r * EpsDen + EpsNum * interval.num
               fden == interval.num * EpsDen
               floor == q + (fnum \div fden)
               whole == (fnum % fden) = 0
           IN [error |-> "",
               value |-> IF floor < 0 /\ ~whole THEN floor + 1 ELSE floor]

\* amount_abs or 0.0
OrZero(amount_abs) ==
    IF IsNone(amount_abs) \/ FEq0(amount_abs) THEN Fin(0) ELSE amount_abs

\* mutant of _apply_balance_filters: the balance-type check runs first
_apply_balance_first(amount_abs, balance_category, p) ==
    IF p.balance_type # "both"
       /\ (balance_category = "None" \/ balance_category # p.balance_type)
    THEN [include |-> FALSE, reason |-> "balance"]
    ELSE IF p.exclude_zero_amounts /\ FEq0(OrZero(amount_abs))
    THEN [include |-> FALSE, reason |-> "zero"]
    ELSE [include |-> TRUE, reason |-> "None"]

\* mutant of _apply_balance_filters: the balance type is not compared
_apply_zero_only(amount_abs, balance_category, p) ==
    IF p.exclude_zero_amounts /\ FEq0(OrZero(amount_abs))
    THEN [include |-> FALSE, reason |-> "zero"]
    ELSE IF balance_category = "None" /\ p.balance_type # "both"
    THEN [include |-> FALSE, reason |-> "balance"]
    ELSE [include |-> TRUE, reason |-> "None"]

\* _apply_balance_filters
_apply_balance_filters(amount_abs, balance_category, p) ==
    IF p.exclude_zero_amounts /\ FEq0(OrZero(amount_abs))
    THEN [include |-> FALSE, reason |-> "zero"]
    ELSE IF p.balance_type = "both"
    THEN [include |-> TRUE, reason |-> "None"]
    ELSE IF balance_category = "None" \/ balance_category # p.balance_type
    THEN [include |-> FALSE, reason |-> "balance"]
    ELSE [include |-> TRUE, reason |-> "None"]

FilterOf(txn, p) == _apply_balance_filters(txn.amount_abs, txn.balance_category, p)

\* mutant of _filter_population: the zero exclusions are not counted
_filter_population_uncounted(transactions, p) ==
    LET Included(t) == FilterOf(t, p).include
    IN [filtered |-> SelectSeq(transactions, Included),
        zero_filtered |-> 0,
        balance_filtered |->
            Cardinality({i \in 1..Len(transactions) :
                            /\ ~FilterOf(transactions[i], p).include
                            /\ FilterOf(transactions[i], p).reason # "zero"})]

\* _filter_population
_filter_population(transactions, p) ==
    LET Included(t) == FilterOf(t, p).include
        Excluded(reason) ==
            {i \in 1..Len(transactions) :
                /\ ~FilterOf(transactions[i], p).include
                /\ (FilterOf(transactions[i], p).reason = "zero") = (reason = "zero")}
    IN [filtered |-> SelectSeq(transactions, Included),
        zero_filtered |-> Cardinality(Excluded("zero")),
        balance_filtered |-> Cardinality(Excluded("balance"))]

\* _mark_transaction: a copy with the label set
_mark_transaction(txn, selection_type) ==
    [txn EXCEPT !.selection_type = selection_type]

\* mutant of AfterMark: the label is written into the argument
AfterMarkInPlace(txn, selection_type) ==
    [txn EXCEPT !.selection_type = selection_type]

\* the argument of _mark_transaction after the call: model_dump() and the
\* constructor build a new object, the argument keeps its fields
AfterMark(txn, selection_type) == txn

MarkAll(txns, selection_type) ==
    [i \in 1..Len(txns) |-> _mark_transaction(txns[i], selection_type)]

\* mutant of IsHighValue: >= instead of >
IsHighValueOrEqual(amount_abs, interval) ==
    \/ FGtQ(amount_abs, interval)
    \/ amount_abs.k = "fin" /\ amount_abs.v * interval.den = interval.num

\* the test of _select_high_value
IsHighValue(amount_abs, interval) == FGtQ(amount_abs, interval)

\* _select_high_value
_select_high_value(transactions, interval) ==
    LET Over(t) == IsHighValue(t.amount_abs, interval)
    IN MarkAll(SelectSeq(transactions, Over), "High Value")

\* mutant of _exclude_transactions: the records are matched by transaction_id
_exclude_by_transaction_id(population, to_exclude) ==
    LET exclude_ids == {to_exclude[i].transaction_id : i \in 1..Len(to_exclude)}
        Kept(t) == t.transaction_id \notin exclude_ids
    IN SelectSeq(population, Kept)

\* mutant of _exclude_transactions: nothing is excluded
_exclude_nothing(population, to_exclude) == population

\* _exclude_transactions
_exclude_transactions(population, to_exclude) ==
    LET exclude_indices == {to_exclude[i].source_row_index : i \in 1..Len(to_exclude)}
        Kept(t) == t.source_row_index \notin exclude_indices
    IN SelectSeq(population, Kept)

\* the size line of _select_random_sample
SampleSize(remaining_balance, interval) == IntPlusEps(remaining_balance, interval)

\* _select_random_sample: [error, value]
_select_random_sample(transactions, interval, seed) ==
    LET remaining_balance == Sum(AmountsAbs(transactions))
        size == SampleSize(remaining_balance, interval)
        sample_size == Min(size.value, Len(transactions))
    IN IF transactions = <<>> THEN [error |-> "", value |-> <<>>]
       ELSE IF FEq0(remaining_balance) THEN [error |-> "", value |-> <<>>]
       ELSE IF size.error # "" THEN [error |-> size.error, value |-> <<>>]
       ELSE IF sample_size = 0 THEN [error |-> "", value |-> <<>>]
       ELSE [error |-> "",
             value |-> MarkAll(RngSample(Random(seed), transactions, sample_size),
                               "Random")]

\* mutant of _combine_samples: the random records come first
_combine_random_first(high_value, random_sample) == random_sample \o high_value

\* _combine_samples
_combine_samples(high_value, random_sample) == high_value \o random_sample

\* mutant of CoveragePercent: the factor 100 is missing
CoverageFraction(coverage_abs, pop_balance) ==
    IF ~FGt0(pop_balance) THEN [k |-> "fin", num |-> 0, den |-> 1]
    ELSE IF coverage_abs.k = "nan" THEN [k |-> "nan", num |-> 0, den |-> 1]
    ELSE IF pop_balance.k = "inf"
    THEN IF coverage_abs.k = "inf" THEN [k |-> "nan", num |-> 0, den |-> 1]
         ELSE [k |-> "fin", num |-> 0, den |-> 1]
    ELSE IF coverage_abs.k = "inf" THEN [k |-> "inf", num |-> coverage_abs.v, den |-> 1]
    ELSE [k |-> "fin", num |-> coverage_abs.v, den |-> pop_balance.v]

\* (coverage_abs / pop_balance * 100) if pop_balance > 0 else 0.0, as the
\* quotient num/den, inf or nan; with an operand from 2^53 on, the finite
\* quotient is given by the v of both operands (kind "big")
CoveragePercent(coverage_abs, pop_balance) ==
    IF ~FGt0(pop_balance) THEN [k |-> "fin", num |-> 0, den |-> 1]
    ELSE IF coverage_abs.k = "nan" THEN [k |-> "nan", num |-> 0, den |-> 1]
    ELSE IF pop_balance.k = "inf"
    THEN IF coverage_abs.k = "inf" THEN [k |-> "nan", num |-> 0, den |-> 1]
         ELSE [k |-> "fin", num |-> 0, den |-> 1]
    ELSE IF coverage_abs.k = "inf" THEN [k |-> "inf", num |-> coverage_abs.v, den |-> 1]
    ELSE IF coverage_abs.k = "big" \/ pop_balance.k = "big"
    THEN [k |-> "big", num |-> coverage_abs.v, den |-> pop_balance.v]
    ELSE [k |-> "fin", num |-> coverage_abs.v * 100, den |-> pop_balance.v]

CountLabel(sample, label) ==
    Cardinality({i \in 1..Len(sample) : sample[i].selection_type = label})

\* _build_statistics
_build_statistics(population, sample, interval, zero_filtered, balance_filtered) ==
    LET pop_balance == Sum(AmountsAbs(population))
        coverage_abs == Sum(AmountsAbs(sample))
    IN SampleStatistics(Len(population), pop_balance, interval,
                        CountLabel(sample, "High Value"),
                        CountLabel(sample, "Random"),
                        coverage_abs, CoveragePercent(coverage_abs, pop_balance),
                        zero_filtered, balance_filtered)

\* what a call of the engine leaves: the pair it returns or the error raised
Returned(sample, stats) ==
    [status |-> "ok", error |-> "", sample |-> sample, stats |-> <<stats>>]

Raised(error) ==
    [status |-> "error", error |-> error, sample |-> <<>>, stats |-> <<>>]

NoResult == [status |-> "none", error |-> "", sample |-> <<>>, stats |-> <<>>]

EmptyPopulation == "ValueError: Population is empty after applying balance filters."

\* mutant of PopulationEmpty: the check is missing
PopulationNeverEmpty(filtered) == FALSE

\* line 48: if not filtered
PopulationEmpty(filtered) == filtered = <<>>

\* generate_sample
generate_sample(cleaned_txns, p) ==
    LET fp == _filter_population(cleaned_txns, p)
        filtered == fp.filtered
        interval == sampling_interval(p)
        high_value == _select_high_value(filtered, interval)
        remaining == _exclude_transactions(filtered, high_value)
        random_sample == _select_random_sample(remaining, interval, p.random_seed)
        sample == _combine_samples(high_value, random_sample.value)
        stats == _build_statistics(filtered, sample, interval,
                                   fp.zero_filtered, fp.balance_filtered)
    IN IF PopulationEmpty(filtered) THEN Raised(EmptyPopulation)
       ELSE IF random_sample.error # "" THEN Raised(random_sample.error)
       ELSE Returned(sample, stats)

\* the list handed to generate_sample as the call leaves it: the list is
\* never assigned to; a record is touched only as the argument of
\* _mark_transaction, for the high-value records and the records drawn
InputsAfter(cleaned_txns, p) ==
    LET fp == _filter_population(cleaned_txns, p)
        interval == sampling_interval(p)
        high_value == _select_high_value(fp.filtered, interval)
        remaining == _exclude_transactions(fp.filtered, high_value)
        random_sample == _select_random_sample(remaining, interval, p.random_seed)
        Marked(marked, t) ==
            \E j \in 1..Len(marked) : marked[j].source_row_index = t.source_row_index
    IN IF PopulationEmpty(fp.filtered) THEN cleaned_txns
       ELSE [i \in 1..Len(cleaned_txns) |->
               IF ~FilterOf(cleaned_txns[i], p).include THEN cleaned_txns[i]
               ELSE IF Marked(high_value, cleaned_txns[i])
               THEN AfterMark(cleaned_txns[i], "High Value")
               ELSE IF Marked(random_sample.value, cleaned_txns[i])
               THEN AfterMark(cleaned_txns[i], "Random")
               ELSE cleaned_txns[i]]

-----------------------------------------------------------------------------
(* sampler.py: generate_sample_streaming, one CSV row at a time *)

\* the locals of a call; open_files counts the handles on the CSV that are
\* open, opens and closes the opens and closes made by this call, exhausted
\* the passes whose reader was read to its end
StreamIdle ==
    [pc |-> "idle", idx |-> 0, interval |-> [k |-> "fin", num |-> 1, den |-> 1],
     total_abs |-> Fin(0), population_size |-> 0, high_value |-> <<>>,
     excluded_zero |-> 0, excluded_balance |-> 0,
     k |-> 0, seen |-> 0, reservoir |-> <<>>, rng |-> 0,
     open_files |-> 0, opens |-> 0, closes |-> 0, exhausted |-> 0]

\* mutant of CloseFile: the handle is left open
LeakFile(st) == st

\* the exit of a "with open(...)" block
CloseFile(st) ==
    [st EXCEPT !.open_files = st.open_files - 1, !.closes = st.closes + 1]

\* the loop of a pass ends because the reader is exhausted
Exhaust(st) == [st EXCEPT !.exhausted = st.exhausted + 1]

\* lines 110-122: the interval, the zeroed totals and the open of pass 1
StreamEnter(p) ==
    [StreamIdle EXCEPT !.pc = "pass1", !.interval = sampling_interval(p),
                       !.open_files = 1, !.opens = 1]

\* line 147: the high-value test of pass 1
Pass1IsHighValue(abs_val, interval) == FGtQ(abs_val, interval)

\* mutant of Pass2IsHighValue: pass 2 does not skip the high-value records
Pass2SkipsNothing(abs_val, interval) == FALSE

\* line 206: the high-value test of pass 2
Pass2IsHighValue(abs_val, interval) == FGtQ(abs_val, interval)

\* lines 148-158 and 211-227: the record built from a row
StreamTransaction(raw, signed, label, idx) ==
    CleanedTransaction(_clean_string(raw.transaction_id), signed, FAbs(signed),
                       _derive_balance(signed), label, idx)

\* lines 127-159: the body of the pass-1 loop for row idx (from 0)
Pass1Body(st, raw, p) ==
    LET amt == _parse_amount(raw.amount)
        signed == amt.value
        abs_val == FAbs(signed)
        balance_cat == _derive_balance(signed)
        f == _apply_balance_filters(abs_val, balance_cat, p)
        next == [st EXCEPT !.idx = st.idx + 1]
    IN IF IsNone(amt.value) THEN next
       ELSE IF ~f.include
       THEN IF f.reason = "zero"
            THEN [next EXCEPT !.excluded_zero = st.excluded_zero + 1]
            ELSE [next EXCEPT !.excluded_balance = st.excluded_balance + 1]
       ELSE [next EXCEPT
               !.population_size = st.population_size + 1,
               !.total_abs = FAdd(st.total_abs, abs_val),
               !.high_value =
                   IF Pass1IsHighValue(abs_val, st.interval)
                   THEN Append(st.high_value,
                               StreamTransaction(raw, signed, "High Value", st.idx))
                   ELSE st.high_value]

\* lines 164-167: the target size of the random stratum, [error, value]
RandomSize(st) ==
    IF st.interval.k # "nan" /\ st.interval.num > 0
    THEN IntPlusEps(FSub(st.total_abs, Sum(AmountsAbs(st.high_value))), st.interval)
    ELSE [error |-> "", value |-> 0]

\* lines 193-248: the body of the pass-2 loop for row idx (from 0)
Pass2Body(st, raw, p) ==
    LET amt == _parse_amount(raw.amount)
        signed == amt.value
        abs_val == FAbs(signed)
        balance_cat == _derive_balance(signed)
        f == _apply_balance_filters(abs_val, balance_cat, p)
        next == [st EXCEPT !.idx = st.idx + 1]
        seen == st.seen + 1
        txn == StreamTransaction(raw, signed, "Random", st.idx)
        j == RandInt(st.rng, 0, seen - 1)
    IN IF IsNone(amt.value) THEN next
       ELSE IF ~f.include THEN next
       ELSE IF Pass2IsHighValue(abs_val, st.interval) THEN next
       ELSE IF Len(st.reservoir) < st.k
       THEN [next EXCEPT !.seen = seen, !.reservoir = Append(st.reservoir, txn)]
       ELSE [next EXCEPT !.seen = seen, !.rng = RngNext(st.rng),
                         !.reservoir = IF j < st.k
                                       THEN [st.reservoir EXCEPT ![j + 1] = txn]
                                       ELSE st.reservoir]

\* lines 250-271: the sample and the statistics returned
StreamResult(st) ==
    LET sample == st.high_value \o st.reservoir
        coverage_abs == Sum(AmountsAbs(sample))
    IN Returned(sample,
                SampleStatistics(st.population_size, st.total_abs, st.interval,
                                 Len(st.high_value), Len(st.reservoir),
                                 coverage_abs,
                                 CoveragePercent(coverage_abs, st.total_abs),
                                 st.excluded_zero, st.excluded_balance))

-----------------------------------------------------------------------------
(* The REST API's job store (restapi storage.py).  The storage root holds   *)
(* one directory per job id with the files input.csv, metadata.json,        *)
(* logs.jsonl and the report.  A file of the model is a record              *)
(*   [k |-> "absent"]  no such file,                                        *)
(*   [k |-> "empty"]   the file exists and holds nothing: write_text has    *)
(*                     opened it for writing and not yet written the text,  *)
(*   [k |-> "json"]    the file holds a whole metadata record.              *)

MaxJobs == 2
MaxFaults == 1

\* the ids a request can name: enqueue_job issues 1, 2, ...; 0 is never issued
JobIds == 0..MaxJobs

\* schemas.JobStatus
PENDING == "pending"
PROCESSING == "processing"
FAILED == "failed"
DONE == "done"

Null == "null"

Metadata(status, report_path, error_message) ==
    [k |-> "json", status |-> status, report_path |-> report_path,
     error_message |-> error_message]

NoFile == [k |-> "absent", status |-> "", report_path |-> Null, error_message |-> Null]

EmptyFile == [k |-> "empty", status |-> "", report_path |-> Null, error_message |-> Null]

\* a job id without a directory
NoJobDir == [dir |-> FALSE, input |-> FALSE, metadata |-> NoFile, logs |-> FALSE,
             report |-> FALSE]

\* job_dir: path.mkdir(parents=True, exist_ok=True)
job_dir(root, job_id) == [root EXCEPT ![job_id].dir = TRUE]

\* report_path(job_id): the path of the report, as update_job stores it
ReportPath == "sample_selection_output.xlsx"

\* create_job_record: the first metadata record of a job
create_job_record == Metadata(PENDING, Null, Null)

\* the record update_job writes back; a None argument keeps the field
OrKeep(new, old) == IF new = Null THEN old ELSE new

update_job(meta, status, report_path, error_message) ==
    Metadata(OrKeep(status, meta.status), OrKeep(report_path, meta.report_path),
             OrKeep(error_message, meta.error_message))

\* the outcome of a storage call: the storage root after it, the exception
\* it raised ("" for none) and what it returned
Outcome(root, raised, value) == [root |-> root, raised |-> raised, value |-> value]

\* _read_metadata: metadata_path (which calls job_dir), exists(), json.loads
_read_metadata(root, job_id) ==
    LET after == job_dir(root, job_id)
        file == after[job_id].metadata
    IN IF file.k = "absent" THEN Outcome(after, "FileNotFoundError", NoFile)
       ELSE IF file.k = "empty" THEN Outcome(after, "JSONDecodeError", EmptyFile)
       ELSE Outcome(after, "", file)

\* _read_logs: log_path (which calls job_dir), then the lines of the file
_read_logs(root, job_id) == job_dir(root, job_id)

\* load_job: _read_metadata, _read_logs, _build_detail
load_job(root, job_id) ==
    LET meta == _read_metadata(root, job_id)
    IN IF meta.raised # "" THEN meta
       ELSE Outcome(_read_logs(meta.root, job_id), "", meta.value)

\* list_jobs: the children of the root that hold a metadata.json
Listed(root) == {j \in JobIds : root[j].dir /\ root[j].metadata.k # "absent"}

RECURSIVE ListFrom(_, _, _)
ListFrom(root, job_id, items) ==
    IF job_id > MaxJobs THEN Outcome(root, "", items)
    ELSE IF job_id \notin Listed(root) THEN ListFrom(root, job_id + 1, items)
    ELSE IF root[job_id].metadata.k = "empty"
    THEN Outcome(root, "JSONDecodeError", items)
    ELSE ListFrom(_read_logs(root, job_id), job_id + 1,
                  Append(items, root[job_id].metadata))

list_jobs(root) == ListFrom(root, 0, <<>>)

\* an HTTP response: the endpoint and id of the request, the status code and
\* detail of the answer, and the metadata file as it was when the request
\* read it
Response(endpoint, job_id, status_code, detail, file) ==
    [endpoint |-> endpoint, job_id |-> job_id, status_code |-> status_code,
     detail |-> detail, file |-> file]

NoResponse == Response("", 0, 0, "", NoFile)

\* an exception no handler of the endpoint catches
InternalServerError(endpoint, job_id, file) ==
    Response(endpoint, job_id, 500, "Internal Server Error", file)

\* main.py get_job
get_job(root, job_id) ==
    LET job == load_job(root, job_id)
        file == root[job_id].metadata
    IN IF job.raised = "FileNotFoundError"
       THEN Response("get_job", job_id, 404, "Job not found", file)
       ELSE IF job.raised # "" THEN InternalServerError("get_job", job_id, file)
       ELSE Response("get_job", job_id, 200, job.value.status, file)

\* the mutant of download_report: the report of any readable job is served
download_report_unchecked(root, job_id) ==
    LET job == load_job(root, job_id)
        file == root[job_id].metadata
    IN IF job.raised = "FileNotFoundError"
       THEN Response("download_report", job_id, 404, "Job not found", file)
       ELSE IF job.raised # ""
       THEN InternalServerError("download_report", job_id, file)
       ELSE Response("download_report", job_id, 200, "FileResponse", file)

\* main.py download_report
download_report(root, job_id) ==
    LET job == load_job(root, job_id)
        file == root[job_id].metadata
    IN IF job.raised = "FileNotFoundError"
       THEN Response("download_report", job_id, 404, "Job not found", file)
       ELSE IF job.raised # ""
       THEN InternalServerError("download_report", job_id, file)
       ELSE IF job.value.status # DONE \/ job.value.report_path = Null
       THEN Response("download_report", job_id, 400, "Report not ready", file)
       ELSE IF ~root[job_id].report
       THEN Response("download_report", job_id, 404, "Report file missing", file)
       ELSE Response("download_report", job_id, 200, "FileResponse", file)

\* JobManager before start(): no task, nothing queued
WorkerIdle(pc) ==
    [pc |-> pc, job_id |-> 0, meta |-> NoFile, next |-> "", cancelled |-> FALSE]

NotRun == "not run"

\* the API before any request
ApiIdle ==
    /\ store = [j \in JobIds |-> NoJobDir]
    /\ queue = <<>>
    /\ worker = WorkerIdle("not_started")
    /\ returncode = [j \in JobIds |-> NotRun]
    /\ status_log = [j \in JobIds |-> <<>>]
    /\ faults = 0
    /\ response = NoResponse

-----------------------------------------------------------------------------
(* The session: main.py builds the parameters, cleans the CSV and calls    *)
(* the engine; the session may call the engine again on the same input,    *)
(* one call at a time.                                                     *)

\* the texts of the transaction_id column: one id, which every row that
\* has an id shares, and the blank text
TxnTexts == {"T", ""}

\* the default seed of SamplingParameters
Seeds == {42}

AmountTexts ==
    {[k |-> "blank", v |-> 0], NaN, Inf(1), Fin(0), Fin(1), Fin(-1), Fin(25000)}

\* the rows of the CSV: the rows of amount 1 have no id, the others share one
RawRows ==
    {r \in [transaction_id : TxnTexts, amount : AmountTexts] :
        (r.transaction_id = "") = (r.amount = Fin(1))}

ParamChoices ==
    {p \in [tolerable_misstatement : {Fin(50000)}, expected_misstatement : {Fin(0)},
            assurance_factor : {Fin(2)}, balance_type : BalanceTypes,
            high_value_override : {None, Fin(1)},
            random_seed : Seeds, exclude_zero_amounts : BOOLEAN] :
        SamplingParametersValid(p)}

NotCleaned == [done |-> FALSE, records |-> <<>>, report |-> _build_quality_report(<<>>, <<>>)]

\* the engine before any call
EngineIdle ==
    /\ cleaned = NotCleaned
    /\ batch = NoResult
    /\ batchPrev = NoResult
    /\ stream = StreamIdle
    /\ streamRes = NoResult
    /\ streamPrev = NoResult

\* main.py after line 121: the parameters are constructed
Init ==
    /\ params \in ParamChoices
    /\ pstate = "constructed"
    /\ interval_result = <<>>
    /\ rows \in UNION {[1..n -> RawRows] : n \in 0..MaxRows}
    /\ EngineIdle
    /\ ApiIdle

StreamRunning == stream.pc \in {"pass1", "pass2"}

\* main.py line 129: clean_data(args.input)
CleanData ==
    /\ pstate = "constructed"
    /\ ~cleaned.done
    /\ cleaned' = clean_data(rows)
    /\ UNCHANGED <<params, rows, batch, batchPrev, stream, streamRes, streamPrev,
                   pstate, interval_result>>
    /\ UNCHANGED api_vars

\* main.py line 144: generate_sample(cleaned, params)
GenerateSample ==
    /\ pstate = "constructed"
    /\ cleaned.done
    /\ ~StreamRunning
    /\ batch' = generate_sample(cleaned.records, params)
    /\ batchPrev' = batch
    /\ cleaned' = [cleaned EXCEPT !.records = InputsAfter(cleaned.records, params)]
    /\ UNCHANGED <<params, rows, stream, streamRes, streamPrev, pstate, interval_result>>
    /\ UNCHANGED api_vars

\* main.py line 140: generate_sample_streaming is entered, pass 1 opens the CSV
StreamBegin ==
    /\ pstate = "constructed"
    /\ cleaned.done
    /\ ~StreamRunning
    /\ stream' = StreamEnter(params)
    /\ UNCHANGED <<params, rows, cleaned, batch, batchPrev, streamRes, streamPrev,
                   pstate, interval_result>>
    /\ UNCHANGED api_vars

\* one iteration of the pass-1 loop
Pass1Row ==
    /\ stream.pc = "pass1"
    /\ stream.idx < Len(rows)
    /\ stream' = Pass1Body(stream, rows[stream.idx + 1], params)
    /\ UNCHANGED <<params, rows, cleaned, batch, batchPrev, streamRes, streamPrev,
                   pstate, interval_result>>
    /\ UNCHANGED api_vars

\* line 161: if population_size == 0
StreamPopulationEmpty(population_size) == population_size = 0

\* the call ends: its result replaces the last one
StreamEnds(st, result) ==
    /\ stream' = st
    /\ streamRes' = result
    /\ streamPrev' = streamRes

\* lines 159-185: pass 1 is exhausted and its file closed; the empty check,
\* the target size, and either the open of pass 2 or, when k = 0, the return
Pass1End ==
    /\ stream.pc = "pass1"
    /\ stream.idx = Len(rows)
    /\ LET closed == CloseFile(Exhaust(stream))
           size == RandomSize(closed)
           k == Max(0, size.value)
       IN IF StreamPopulationEmpty(closed.population_size)
          THEN StreamEnds([closed EXCEPT !.pc = "raised"], Raised(EmptyPopulation))
          ELSE IF size.error # ""
          THEN StreamEnds([closed EXCEPT !.pc = "raised"], Raised(size.error))
          ELSE IF k > 0
          THEN /\ stream' = [closed EXCEPT !.pc = "pass2", !.idx = 0, !.k = k,
                                           !.rng = Random(params.random_seed),
                                           !.open_files = closed.open_files + 1,
                                           !.opens = closed.opens + 1]
               /\ UNCHANGED <<streamRes, streamPrev>>
          ELSE StreamEnds([closed EXCEPT !.pc = "returned", !.k = k],
                          StreamResult(closed))
    /\ UNCHANGED <<params, rows, cleaned, batch, batchPrev, pstate, interval_result>>
    /\ UNCHANGED api_vars

\* one iteration of the pass-2 loop
Pass2Row ==
    /\ stream.pc = "pass2"
    /\ stream.idx < Len(rows)
    /\ stream' = Pass2Body(stream, rows[stream.idx + 1], params)
    /\ UNCHANGED <<params, rows, cleaned, batch, batchPrev, streamRes, streamPrev,
                   pstate, interval_result>>
    /\ UNCHANGED api_vars

\* lines 248-271: pass 2 is exhausted and its file closed; the return
Pass2End ==
    /\ stream.pc = "pass2"
    /\ stream.idx = Len(rows)
    /\ StreamEnds([CloseFile(Exhaust(stream)) EXCEPT !.pc = "returned"],
                  StreamResult(stream))
    /\ UNCHANGED <<params, rows, cleaned, batch, batchPrev, pstate, interval_result>>
    /\ UNCHANGED api_vars

Next ==
    \/ CleanData
    \/ GenerateSample
    \/ StreamBegin
    \/ Pass1Row
    \/ Pass1End
    \/ Pass2Row
    \/ Pass2End

Spec == Init /\ [][Next]_vars

\* the sessions that use batch mode only (main.py without --fast)
BatchNext ==
    \/ CleanData
    \/ GenerateSample

BatchSpec == Init /\ [][BatchNext]_vars

\* the sessions that use streaming mode only (main.py with --fast)
StreamNext ==
    \/ CleanData
    \/ StreamBegin
    \/ Pass1Row
    \/ Pass1End
    \/ Pass2Row
    \/ Pass2End

StreamSpec == Init /\ [][StreamNext]_vars

\* the amounts of a file that holds an amount from 2^53 on
LargeAmountTexts == {Fin(1), Fin(3), Big(0)}

LargeRows == [transaction_id : {"T"}, amount : LargeAmountTexts]

LargeParamChoices ==
    {p \in [tolerable_misstatement : {Fin(50000)}, expected_misstatement : {Fin(0)},
            assurance_factor : {Fin(2)}, balance_type : {"both"},
            high_value_override : {Fin(1), Fin(3)},
            random_seed : Seeds, exclude_zero_amounts : {TRUE}] :
        SamplingParametersValid(p)}

\* main.py after line 121, on a file with at most one amount from 2^53 on
LargeInit ==
    /\ params \in LargeParamChoices
    /\ pstate = "constructed"
    /\ interval_result = <<>>
    /\ rows \in {r \in UNION {[1..n -> LargeRows] : n \in 0..MaxRows} :
                    Cardinality({i \in 1..Len(r) : r[i].amount.k = "big"}) <= 1}
    /\ EngineIdle
    /\ ApiIdle

\* the streaming calls of a session on such a file
LargeSpec == LargeInit /\ [][StreamNext]_vars

\* the amounts of a file with texts float() rejects
DirtyAmountTexts ==
    {[k |-> "blank", v |-> 0], [k |-> "junk", v |-> 0], NaN, Fin(0), Fin(1), Fin(-1),
     Fin(25000)}

DirtyRows == [transaction_id : {"T"}, amount : DirtyAmountTexts]

\* main.py after line 121, on such a file
DirtyInit ==
    /\ params \in {p \in ParamChoices : p.balance_type = "both"}
    /\ pstate = "constructed"
    /\ interval_result = <<>>
    /\ rows \in UNION {[1..n -> DirtyRows] : n \in 0..MaxRows}
    /\ EngineIdle
    /\ ApiIdle

\* cleaning and the streaming calls of a session on such a file
DirtySpec == DirtyInit /\ [][StreamNext]_vars

\* the rows of a file whose every amount float() gives a number
NumericRows == {r \in RawRows : r.amount.k \in {"fin", "inf"}}

\* main.py after line 121, on such a file
NumericInit ==
    /\ params \in ParamChoices
    /\ pstate = "constructed"
    /\ interval_result = <<>>
    /\ rows \in UNION {[1..n -> NumericRows] : n \in 0..MaxRows}
    /\ EngineIdle
    /\ ApiIdle

\* the sessions of both modes on such a file
NumericSpec == NumericInit /\ [][Next]_vars

-----------------------------------------------------------------------------
(* Reading the CSV can fail in the middle of a pass (the open file raises   *)
(* OSError, the utf-8-sig decoder UnicodeDecodeError, the reader            *)
(* csv.Error).  The exception leaves the "with" block, which closes the     *)
(* file, and ends the call.                                                 *)

ReadError == "ReadError"

ReadFails ==
    /\ StreamRunning
    /\ StreamEnds([CloseFile(stream) EXCEPT !.pc = "raised"], Raised(ReadError))
    /\ UNCHANGED <<params, rows, cleaned, batch, batchPrev, pstate, interval_result>>
    /\ UNCHANGED api_vars

IoNext ==
    \/ CleanData
    \/ StreamBegin
    \/ Pass1Row
    \/ Pass1End
    \/ Pass2Row
    \/ Pass2End
    \/ ReadFails

\* the streaming calls of a session, with read failures
IoSpec == Init /\ [][IoNext]_vars

-----------------------------------------------------------------------------
(* The parameters before construction: the arguments of the command line   *)
(* (pstate = "cli") or the form fields posted to the REST API (pstate =    *)
(* "api").  An accepted job is queued and the worker is launched on its    *)
(* values as a command line.                                               *)

ArgFloats == {Fin(50000), Fin(60000), Fin(2), Fin(0), Fin(-1), Inf(1), NaN}

ArgChoices ==
    [tolerable_misstatement : ArgFloats, expected_misstatement : ArgFloats,
     assurance_factor : {Fin(2), Fin(0), Fin(-1), Inf(1)},
     balance_type : {"both"},
     high_value_override : {None, Fin(1), Fin(0), Fin(-1), Inf(1)},
     random_seed : {42, 0, -1}, exclude_zero_amounts : {TRUE}]

ParamInit ==
    /\ params \in ArgChoices
    /\ pstate \in {"api", "cli"}
    /\ interval_result = <<>>
    /\ rows = <<>>
    /\ EngineIdle
    /\ ApiIdle

\* restapi main.py lines 83-101: SamplingParams(...) and enqueue_job, or 422
SubmitJob ==
    /\ pstate = "api"
    /\ pstate' = IF SamplingParamsValid(params) THEN "queued" ELSE "rejected"
    /\ UNCHANGED <<params, interval_result>>
    /\ UNCHANGED engine_vars
    /\ UNCHANGED api_vars

\* restapi jobs.py _run_job_sync: the worker is launched on the job's values
RunJob ==
    /\ pstate = "queued"
    /\ pstate' = "cli"
    /\ params' = _build_cli_args(params)
    /\ UNCHANGED interval_result
    /\ UNCHANGED engine_vars
    /\ UNCHANGED api_vars

\* main.py lines 113-121: SamplingParameters(...)
ConstructParameters ==
    /\ pstate = "cli"
    /\ pstate' = IF SamplingParametersValid(params) THEN "constructed" ELSE "rejected"
    /\ UNCHANGED <<params, interval_result>>
    /\ UNCHANGED engine_vars
    /\ UNCHANGED api_vars

\* a call of params.sampling_interval()
CallSamplingInterval ==
    /\ pstate = "constructed"
    /\ interval_result = <<>>
    /\ interval_result' = <<sampling_interval(params)>>
    /\ UNCHANGED <<params, pstate>>
    /\ UNCHANGED engine_vars
    /\ UNCHANGED api_vars

ParamNext ==
    \/ SubmitJob
    \/ RunJob
    \/ ConstructParameters
    \/ CallSamplingInterval
    \/ CleanData
    \/ GenerateSample
    \/ StreamBegin
    \/ Pass1End

ParamSpec == ParamInit /\ [][ParamNext]_vars

-----------------------------------------------------------------------------
(* The REST API's jobs (restapi jobs.py, main.py).  Requests run on the     *)
(* event loop, one at a time.  The worker task takes the queued jobs one by *)
(* one and runs _run_job_sync in a thread (asyncio.to_thread), whose file   *)
(* operations interleave with the requests; its "except" block runs on the  *)
(* event loop again.  worker.pc is the position of the worker task:         *)
(*   "not_started", "idle" (awaiting queue.get), "load", "truncate",        *)
(*   "flush", "run", "return", "raised" (inside _run_job_sync or at its     *)
(*   end), "ended" (an exception left the loop), "cancelled".               *)
(* A write of metadata.json can fail after the file was opened (OSError:    *)
(* no space left, quota), at most MaxFaults times; subprocess.run can raise *)
(* (OSError: the working directory or the interpreter is missing).          *)

JobInit ==
    /\ params = CHOOSE p \in ParamChoices : TRUE
    /\ pstate = "api"
    /\ interval_result = <<>>
    /\ rows = <<>>
    /\ EngineIdle
    /\ ApiIdle

\* uuid4().hex: an id no job has
NextJobId == 1 + Cardinality({j \in 1..MaxJobs : store[j].input})

\* the status of the last whole record written for the job
Logged(job_id, status) == [status_log EXCEPT ![job_id] = Append(@, status)]

\* jobs.py enqueue_job: input.csv, create_job_record, queue.put
EnqueueJob ==
    /\ NextJobId <= MaxJobs
    /\ LET job_id == NextJobId
       IN /\ store' = [job_dir(store, job_id) EXCEPT
                          ![job_id].input = TRUE,
                          ![job_id].metadata = create_job_record]
          /\ status_log' = Logged(job_id, create_job_record.status)
          /\ queue' = Append(queue, job_id)
    /\ UNCHANGED <<worker, returncode, faults, response>>
    /\ UNCHANGED session_vars

\* jobs.py start: create_task(self._worker())
StartWorker ==
    /\ worker.pc = "not_started"
    /\ worker' = [worker EXCEPT !.pc = "idle"]
    /\ UNCHANGED <<store, queue, returncode, status_log, faults, response>>
    /\ UNCHANGED session_vars

\* jobs.py stop: the task is cancelled; a thread it started runs on
StopWorker ==
    /\ worker.pc \notin {"not_started", "cancelled", "ended"}
    /\ ~worker.cancelled
    /\ worker' = IF worker.pc = "idle"
                 THEN [worker EXCEPT !.pc = "cancelled", !.cancelled = TRUE]
                 ELSE [worker EXCEPT !.cancelled = TRUE]
    /\ UNCHANGED <<store, queue, returncode, status_log, faults, response>>
    /\ UNCHANGED session_vars

\* _worker lines 98-102: queue.get, then _run_job_sync starts in a thread
WorkerGet ==
    /\ worker.pc = "idle"
    /\ queue # <<>>
    /\ worker' = [worker EXCEPT !.pc = "load", !.job_id = Head(queue)]
    /\ queue' = Tail(queue)
    /\ UNCHANGED <<store, returncode, status_log, faults, response>>
    /\ UNCHANGED session_vars

\* _run_job_sync lines 139-140: load_job, then update_job(PROCESSING) reads
\* the metadata and prepares the record to write
RunJobLoad ==
    /\ worker.pc = "load"
    /\ LET detail == load_job(store, worker.job_id)
       IN /\ store' = detail.root
          /\ worker' = IF detail.raised # ""
                       THEN [worker EXCEPT !.pc = "raised"]
                       ELSE [worker EXCEPT
                                !.pc = "truncate", !.next = "run",
                                !.meta = update_job(detail.value, PROCESSING,
                                                    Null, Null)]
    /\ UNCHANGED <<queue, returncode, status_log, faults, response>>
    /\ UNCHANGED session_vars

\* _write_metadata, first half: write_text opens the file, which empties it
WriteTruncate ==
    /\ worker.pc = "truncate"
    /\ store' = [store EXCEPT ![worker.job_id].metadata = EmptyFile]
    /\ worker' = [worker EXCEPT !.pc = "flush"]
    /\ UNCHANGED <<queue, returncode, status_log, faults, response>>
    /\ UNCHANGED session_vars

\* _write_metadata, second half: the text is written and the file closed
WriteFlush ==
    /\ worker.pc = "flush"
    /\ store' = [store EXCEPT ![worker.job_id].metadata = worker.meta]
    /\ status_log' = Logged(worker.job_id, worker.meta.status)
    /\ worker' = [worker EXCEPT !.pc = worker.next]
    /\ UNCHANGED <<queue, returncode, faults, response>>
    /\ UNCHANGED session_vars

\* _write_metadata, second half, failing: the write raises OSError
WriteFault ==
    /\ worker.pc = "flush"
    /\ faults < MaxFaults
    /\ faults' = faults + 1
    /\ worker' = [worker EXCEPT !.pc = "raised"]
    /\ UNCHANGED <<store, queue, returncode, status_log, response>>
    /\ UNCHANGED session_vars

\* the mutant of FinalStatus: every exit is recorded as done
FinalStatusAlwaysDone(code) == DONE

\* _run_job_sync lines 176-199: the status, report path and error message
\* recorded for an exit code
FinalStatus(code) == IF code # "0" THEN FAILED ELSE DONE

FinalReportPath(code) == IF code # "0" THEN Null ELSE ReportPath

FinalErrorMessage(code) == IF code # "0" THEN "Worker exited with code" ELSE Null

\* _run_job_sync lines 144-199: subprocess.run ends with an exit code (the
\* worker wrote its report if the code is 0, and perhaps if not) or raises;
\* the output is appended to the log; update_job reads the metadata and
\* prepares the record to write
SubprocessRun ==
    /\ worker.pc = "run"
    /\ \E code \in {"0", "1", "OSError"}, written \in BOOLEAN :
        /\ written = TRUE \/ code = "1"
        /\ returncode' = [returncode EXCEPT ![worker.job_id] = code]
        /\ IF code = "OSError"
           THEN /\ worker' = [worker EXCEPT !.pc = "raised"]
                /\ store' = store
           ELSE LET logged == [job_dir(store, worker.job_id) EXCEPT
                                  ![worker.job_id].logs = TRUE,
                                  ![worker.job_id].report = @ \/ written]
                    meta == _read_metadata(logged, worker.job_id)
                IN /\ store' = meta.root
                   /\ worker' = IF meta.raised # ""
                                THEN [worker EXCEPT !.pc = "raised"]
                                ELSE [worker EXCEPT
                                         !.pc = "truncate", !.next = "return",
                                         !.meta = update_job(meta.value,
                                                     FinalStatus(code),
                                                     FinalReportPath(code),
                                                     FinalErrorMessage(code))]
    /\ UNCHANGED <<queue, status_log, faults, response>>
    /\ UNCHANGED session_vars

\* where the worker task goes when the thread has ended: back to queue.get,
\* unless it was cancelled while it waited for the thread
AfterJob == IF worker.cancelled THEN "cancelled" ELSE "idle"

\* _worker lines 103, 129-130: _run_job_sync returned
WorkerTaskDone ==
    /\ worker.pc = "return"
    /\ worker' = [worker EXCEPT !.pc = AfterJob]
    /\ UNCHANGED <<store, queue, returncode, status_log, faults, response>>
    /\ UNCHANGED session_vars

\* _worker lines 104-128: what the "except" block does to the store, up to
\* update_job's read of the metadata
ExceptBlock == _read_metadata([job_dir(store, worker.job_id) EXCEPT
                                  ![worker.job_id].logs = TRUE],
                              worker.job_id)

\* _worker lines 104-130: _run_job_sync raised; the failure is logged and
\* recorded, or the read of the metadata raises and the exception leaves
\* the loop
WorkerExcept ==
    /\ worker.pc = "raised"
    /\ IF worker.cancelled
       THEN /\ worker' = [worker EXCEPT !.pc = "cancelled"]
            /\ UNCHANGED <<store, status_log>>
       ELSE LET meta == ExceptBlock
                record == update_job(meta.value, FAILED, Null, "Worker crashed")
            IN IF meta.raised # ""
               THEN /\ store' = meta.root
                    /\ worker' = [worker EXCEPT !.pc = "ended"]
                    /\ UNCHANGED status_log
               ELSE /\ store' = [meta.root EXCEPT ![worker.job_id].metadata = record]
                    /\ status_log' = Logged(worker.job_id, record.status)
                    /\ worker' = [worker EXCEPT !.pc = "idle"]
    /\ UNCHANGED <<queue, returncode, faults, response>>
    /\ UNCHANGED session_vars

\* _worker lines 126-128, failing: the write of the "except" block raises,
\* and the exception leaves the loop
WorkerExceptFault ==
    /\ worker.pc = "raised"
    /\ ~worker.cancelled
    /\ faults < MaxFaults
    /\ ExceptBlock.raised = ""
    /\ faults' = faults + 1
    /\ store' = [ExceptBlock.root EXCEPT ![worker.job_id].metadata = EmptyFile]
    /\ worker' = [worker EXCEPT !.pc = "ended"]
    /\ UNCHANGED <<queue, returncode, status_log, response>>
    /\ UNCHANGED session_vars

\* GET /jobs/{job_id}
GetJob(job_id) ==
    /\ response' = get_job(store, job_id)
    /\ store' = load_job(store, job_id).root
    /\ UNCHANGED <<queue, worker, returncode, status_log, faults>>
    /\ UNCHANGED session_vars

\* GET /jobs/{job_id}/report
DownloadReport(job_id) ==
    /\ response' = download_report(store, job_id)
    /\ store' = load_job(store, job_id).root
    /\ UNCHANGED <<queue, worker, returncode, status_log, faults>>
    /\ UNCHANGED session_vars

\* GET /jobs
ListJobs ==
    /\ LET jobs == list_jobs(store)
       IN /\ response' = IF jobs.raised # ""
                         THEN InternalServerError("list_jobs", 0, EmptyFile)
                         ELSE Response("list_jobs", 0, 200, "JobListResponse", NoFile)
          /\ store' = jobs.root
    /\ UNCHANGED <<queue, worker, returncode, status_log, faults>>
    /\ UNCHANGED session_vars

GetJobRequest == \E job_id \in JobIds : GetJob(job_id)

DownloadReportRequest == \E job_id \in JobIds : DownloadReport(job_id)

\* the steps of the worker task that its scheduling guarantees: the event
\* loop runs a started task, a thread runs on, a subprocess terminates
WorkerStep ==
    \/ WorkerGet
    \/ RunJobLoad
    \/ WriteTruncate
    \/ WriteFlush
    \/ SubprocessRun
    \/ WorkerTaskDone
    \/ WorkerExcept

JobNext ==
    \/ EnqueueJob
    \/ StartWorker
    \/ StopWorker
    \/ WorkerGet
    \/ RunJobLoad
    \/ WriteTruncate
    \/ WriteFlush
    \/ WriteFault
    \/ SubprocessRun
    \/ WorkerTaskDone
    \/ WorkerExcept
    \/ WorkerExceptFault
    \/ GetJobRequest
    \/ DownloadReportRequest
    \/ ListJobs

\* the REST API: jobs, the worker and the job queries
JobSpec == JobInit /\ [][JobNext]_vars

WorkerNext ==
    \/ EnqueueJob
    \/ StartWorker
    \/ WorkerGet
    \/ RunJobLoad
    \/ WriteTruncate
    \/ WriteFlush
    \/ WriteFault
    \/ SubprocessRun
    \/ WorkerTaskDone
    \/ WorkerExcept
    \/ WorkerExceptFault

\* the worker task, never stopped, under its scheduling
WorkerSpec == JobInit /\ [][WorkerNext]_vars /\ WF_vars(WorkerStep)

-----------------------------------------------------------------------------
(* Terms of the properties, read off the CSV rows.  Row i of the CSV       *)
(* (from 1) has source_row_index i - 1.                                    *)

Interval == sampling_interval(params)

\* the rows whose amount parses
ParsedRows == {i \in 1..Len(rows) : rows[i].amount.k \in {"fin", "inf", "nan", "big"}}

RowAbs(i) == FAbs(rows[i].amount)

RowCategory(i) ==
    CASE rows[i].amount.k = "nan" -> "None"
      [] rows[i].amount.k = "big" -> "credit"
      [] rows[i].amount.v > 0 -> "credit"
      [] rows[i].amount.v < 0 -> "debit"
      [] OTHER -> "zero"

\* the filtered population of the rows
Population ==
    {i \in ParsedRows : _apply_balance_filters(RowAbs(i), RowCategory(i), params).include}

\* amount_abs > interval, = interval
ExceedsInterval(i) ==
    \/ RowAbs(i).k \in {"inf", "big"}
    \/ RowAbs(i).k = "fin" /\ RowAbs(i).v * Interval.den > Interval.num

AtInterval(i) == RowAbs(i).k = "fin" /\ RowAbs(i).v * Interval.den = Interval.num

\* row i is in the sample of a result under the label
Labelled(res, i, label) ==
    \E j \in 1..Len(res.sample) :
        /\ res.sample[j].source_row_index = i - 1
        /\ res.sample[j].selection_type = label

Ok(res) == res.status = "ok"

-----------------------------------------------------------------------------
\* C1: in batch and in streaming mode, a record of the filtered population
\* is in the returned sample labelled 'High Value' if and only if its
\* amount_abs is strictly greater than the interval (never at the interval).
C1_HighValueIffAboveInterval ==
    \A res \in {batch, streamRes} :
        Ok(res) =>
            \A i \in Population : Labelled(res, i, "High Value") <=> ExceedsInterval(i)

\* both modes returned; one record is above the interval, one exactly at it
C1_Witness ==
    /\ Ok(batch) /\ Ok(streamRes)
    /\ \E i, j \in Population :
          /\ ExceedsInterval(i) /\ AtInterval(j)
          /\ Labelled(batch, i, "High Value") /\ Labelled(streamRes, i, "High Value")
          /\ ~Labelled(batch, j, "High Value") /\ ~Labelled(streamRes, j, "High Value")

\* the number of sample records of a result that carry the label
NumLabelled(res, label) ==
    Cardinality({j \in 1..Len(res.sample) : res.sample[j].selection_type = label})

\* C2: every record of a returned sample carries exactly one of the two
\* labels, the two counts of the statistics are the numbers of records
\* under each label and add up to the sample's length, and no row index
\* appears under both labels.
C2_LabelsAndCounts ==
    \A res \in {batch, streamRes} :
        Ok(res) =>
            /\ \A j \in 1..Len(res.sample) :
                  res.sample[j].selection_type \in {"High Value", "Random"}
            /\ res.stats[1].high_value_count = NumLabelled(res, "High Value")
            /\ res.stats[1].random_sample_count = NumLabelled(res, "Random")
            /\ res.stats[1].high_value_count + res.stats[1].random_sample_count
                  = Len(res.sample)
            /\ \A i \in 1..Len(rows) :
                  ~(Labelled(res, i, "High Value") /\ Labelled(res, i, "Random"))

\* both modes returned a sample that holds both labels
C2_Witness ==
    \A res \in {batch, streamRes} :
        /\ Ok(res)
        /\ NumLabelled(res, "High Value") >= 1
        /\ NumLabelled(res, "Random") >= 1

-----------------------------------------------------------------------------
\* the candidates: the filtered population without the high-value records
Candidates == {i \in Population : ~ExceedsInterval(i)}

\* the sum of amount_abs over the finite candidates among rows 1..n
RECURSIVE CandidateBalance(_)
CandidateBalance(n) ==
    IF n = 0 THEN 0
    ELSE CandidateBalance(n - 1)
         + (IF n \in Candidates /\ RowAbs(n).k = "fin" THEN RowAbs(n).v ELSE 0)

\* ceil(a / b) for a >= 0, b > 0
Ceiling(a, b) == (a + b - 1) \div b

\* ceil(remaining_balance / interval), capped at the number of candidates
TargetSize ==
    Min(Ceiling(CandidateBalance(Len(rows)) * Interval.den, Interval.num),
        Cardinality(Candidates))

\* the records under 'Random' are distinct candidates
RandomAreDistinctCandidates(res) ==
    /\ \A j \in 1..Len(res.sample) :
          res.sample[j].selection_type = "Random" =>
              res.sample[j].source_row_index + 1 \in Candidates
    /\ \A j1, j2 \in 1..Len(res.sample) :
          res.sample[j1].source_row_index = res.sample[j2].source_row_index => j1 = j2

\* C3: in batch mode the number of records labelled 'Random' is
\* min(ceil(remaining_balance / interval), number of candidates), and they
\* are distinct candidates.
C3_RandomCountIsCeiling ==
    Ok(batch) =>
        /\ NumLabelled(batch, "Random") = TargetSize
        /\ RandomAreDistinctCandidates(batch)

-----------------------------------------------------------------------------
\* C4: for the same parameters and rows, streaming mode returns a random
\* stratum of the same size as batch mode.
C4_SameRandomCount ==
    (Ok(batch) /\ streamRes.status # "none") =>
        /\ Ok(streamRes)
        /\ streamRes.stats[1].random_sample_count = batch.stats[1].random_sample_count

\* the source_row_index values under 'High Value', in sample order
HighValueIndices(res) ==
    LET IsHV(t) == t.selection_type = "High Value"
        hv == SelectSeq(res.sample, IsHV)
    IN [j \in 1..Len(hv) |-> hv[j].source_row_index]

\* C5: for the same parameters and rows, the two modes produce the same
\* population_size, population_balance_abs, sampling_interval and exclusion
\* counters and the same sequence of high-value row indices.
C5_SameTotalsAndHighValue ==
    (Ok(batch) /\ streamRes.status # "none") =>
        /\ Ok(streamRes)
        /\ streamRes.stats[1].population_size = batch.stats[1].population_size
        /\ streamRes.stats[1].population_balance_abs = batch.stats[1].population_balance_abs
        /\ streamRes.stats[1].sampling_interval = batch.stats[1].sampling_interval
        /\ streamRes.stats[1].excluded_zero_amounts = batch.stats[1].excluded_zero_amounts
        /\ streamRes.stats[1].excluded_due_to_balance = batch.stats[1].excluded_due_to_balance
        /\ HighValueIndices(streamRes) = HighValueIndices(batch)

-----------------------------------------------------------------------------
-----------------------------------------------------------------------------
\* C7: when no record is left after filtering, both modes end in the
\* empty-population ValueError and return no sample and no statistics; in
\* streaming mode the CSV is opened for pass 1 only, pass 2 never starts.
C7_EmptyPopulationRaises ==
    Population = {} =>
        /\ batch.status # "none" => batch = Raised(EmptyPopulation)
        /\ streamRes.status # "none" => streamRes = Raised(EmptyPopulation)
        /\ stream.pc \notin {"pass2", "returned"}
        /\ stream.opens <= 1

\* only zero amounts, all excluded: both modes have raised, the streaming
\* call after reading every row in pass 1
C7_Witness ==
    /\ ParsedRows # {}
    /\ Population = {}
    /\ batch = Raised(EmptyPopulation)
    /\ streamRes = Raised(EmptyPopulation)
    /\ stream.pc = "raised" /\ stream.idx = Len(rows) /\ stream.opens = 1

-----------------------------------------------------------------------------
\* the parsed rows with absolute amount 0
ZeroRows == {i \in ParsedRows : RowAbs(i) = Fin(0)}

\* the parsed rows with a non-zero amount whose category is not the
\* requested balance type
MismatchRows ==
    {i \in ParsedRows \ ZeroRows :
        params.balance_type # "both" /\ RowCategory(i) # params.balance_type}

\* pass 1 of the streaming call has read every row
Pass1Done ==
    \/ stream.pc = "pass1" /\ stream.idx = Len(rows)
    \/ stream.pc \in {"pass2", "returned", "raised"}

\* C8: with exclude_zero_amounts set, every record with absolute amount 0
\* is excluded with reason 'zero' whatever the balance type: it is counted
\* in excluded_zero_amounts and never in excluded_due_to_balance.
C8_ZeroExclusionFirst ==
    params.exclude_zero_amounts =>
        /\ \A res \in {batch, streamRes} :
              Ok(res) =>
                  /\ res.stats[1].excluded_zero_amounts = Cardinality(ZeroRows)
                  /\ res.stats[1].excluded_due_to_balance = Cardinality(MismatchRows)
        /\ Pass1Done =>
              /\ stream.excluded_zero = Cardinality(ZeroRows)
              /\ stream.excluded_balance = Cardinality(MismatchRows)

\* a zero amount under balance type credit, which its category 'zero' does
\* not match, beside a debit and a credit record; both modes returned
C8_Witness ==
    /\ params.exclude_zero_amounts /\ params.balance_type = "credit"
    /\ ZeroRows # {} /\ MismatchRows # {}
    /\ Ok(batch) /\ Ok(streamRes)
    /\ batch.stats[1].excluded_zero_amounts = 1
    /\ streamRes.stats[1].excluded_zero_amounts = 1

-----------------------------------------------------------------------------
\* row i is removed by zero-exclusion
ZeroExcluded(i) == params.exclude_zero_amounts /\ RowAbs(i) = Fin(0)

\* row i has the requested balance type
MatchesType(i) ==
    params.balance_type = "both" \/ RowCategory(i) = params.balance_type

\* C9: a record not removed by zero-exclusion passes the filter exactly
\* when the balance type is 'both' or equals its category, and is otherwise
\* excluded with reason 'balance'; every record of a returned sample has
\* the requested balance category.
C9_BalanceTypeFilter ==
    \A res \in {batch, streamRes} :
        Ok(res) =>
            /\ res.stats[1].population_size =
                  Cardinality({i \in ParsedRows : ~ZeroExcluded(i) /\ MatchesType(i)})
            /\ res.stats[1].excluded_due_to_balance =
                  Cardinality({i \in ParsedRows : ~ZeroExcluded(i) /\ ~MatchesType(i)})
            /\ \A j \in 1..Len(res.sample) :
                  /\ res.sample[j].source_row_index + 1 \in ParsedRows
                  /\ ~ZeroExcluded(res.sample[j].source_row_index + 1)
                  /\ MatchesType(res.sample[j].source_row_index + 1)
                  /\ params.balance_type # "both" =>
                        res.sample[j].balance_category = params.balance_type

\* balance type debit: a credit record is excluded for 'balance', both
\* modes return a non-empty sample of debit records
C9_Witness ==
    /\ params.balance_type = "debit"
    /\ \A res \in {batch, streamRes} :
          /\ Ok(res)
          /\ Len(res.sample) >= 1
          /\ res.stats[1].excluded_due_to_balance >= 1
    /\ \E i \in ParsedRows : RowCategory(i) = "credit"

-----------------------------------------------------------------------------
\* the rows the engine cannot classify: balance category null
UnclassifiedRows == {i \in ParsedRows : RowCategory(i) = "None"}

InfiniteRows == {i \in ParsedRows : rows[i].amount.k = "inf"}

\* C10: a record whose balance category is null is excluded with reason
\* 'balance' under every parameter setting: it is never counted into the
\* population, never in a sample, and it never makes a call fail.
C10_UnclassifiedExcluded ==
    /\ StreamRunning \/ Pass1Done =>
          stream.population_size <= Cardinality(ParsedRows \ UnclassifiedRows)
    /\ \A res \in {batch, streamRes} :
          /\ \A i \in UnclassifiedRows :
                ~Labelled(res, i, "High Value") /\ ~Labelled(res, i, "Random")
          /\ (InfiniteRows = {} /\ res.status = "error") =>
                res.error = EmptyPopulation

-----------------------------------------------------------------------------
\* C11: sampling_interval() returns high_value_override when one is
\* supplied and otherwise (tolerable - expected) / assurance_factor, and
\* for every constructed SamplingParameters the result is strictly
\* positive.
C11_IntervalPositive ==
    interval_result # <<>> =>
        LET r == interval_result[1]
            t == params.tolerable_misstatement
            e == params.expected_misstatement
            a == params.assurance_factor
            o == params.high_value_override
        IN /\ ~IsNone(o) => (r.k = o.k /\ r.num = o.v * r.den)
           /\ (IsNone(o) /\ t.k = "fin" /\ e.k = "fin" /\ a.k = "fin") =>
                 (r.k = "fin" /\ r.num * a.v = (t.v - e.v) * r.den)
           /\ r.k # "nan" /\ r.num > 0 /\ r.den > 0

-----------------------------------------------------------------------------
\* x <= 0 and x < 0 of a float or None (None compares with nothing)
LeZero(x) == x.k \in {"fin", "inf"} /\ x.v <= 0
LtZero(x) == x.k \in {"fin", "inf"} /\ x.v < 0

\* expected_misstatement >= tolerable_misstatement
ExpectedNotBelowTolerable ==
    LET t == params.tolerable_misstatement
        e == params.expected_misstatement
    IN /\ t.k # "nan" /\ e.k # "nan"
       /\ \/ e = Inf(1)
          \/ t = Inf(-1)
          \/ e.k = "fin" /\ t.k = "fin" /\ e.v >= t.v

\* one of the invalid combinations
InvalidCombination ==
    \/ ExpectedNotBelowTolerable
    \/ LeZero(params.tolerable_misstatement)
    \/ LtZero(params.expected_misstatement)
    \/ LeZero(params.assurance_factor)
    \/ LeZero(params.high_value_override)
    \/ params.random_seed < 0

\* no part of the engine has run
EngineNotEntered ==
    /\ ~cleaned.done
    /\ batch = NoResult
    /\ stream = StreamIdle
    /\ streamRes = NoResult

\* C12: an invalid combination (expected >= tolerable, tolerable <= 0,
\* expected < 0, assurance <= 0, override <= 0, seed < 0) is rejected when
\* the parameters are constructed, by the REST API's SamplingParams as by
\* the worker's SamplingParameters: no job is queued for it, no parameters
\* object exists for it and the engine is never entered.
C12_InvalidRejected ==
    InvalidCombination =>
        /\ pstate \in {"api", "cli", "rejected"}
        /\ EngineNotEntered
        /\ interval_result = <<>>

\* expected = tolerable with every field valid on its own: the worker's
\* construction was attempted and failed
C12_Witness ==
    /\ pstate = "rejected"
    /\ params.expected_misstatement = Fin(50000)
    /\ params.tolerable_misstatement = Fin(50000)
    /\ params.assurance_factor = Fin(2)
    /\ params.high_value_override = None
    /\ params.random_seed = 42
    /\ EngineNotEntered

-----------------------------------------------------------------------------
\* the sum of amount_abs over the rows of S among rows 1..n
RECURSIVE RowSum(_, _)
RowSum(S, n) ==
    IF n = 0 THEN Fin(0)
    ELSE FAdd(RowSum(S, n - 1), IF n \in S THEN RowAbs(n) ELSE Fin(0))

\* the sum, over the first j sample records of a result, of the amount_abs
\* of the row each record comes from
RECURSIVE SampleSum(_, _)
SampleSum(res, j) ==
    IF j = 0 THEN Fin(0)
    ELSE FAdd(SampleSum(res, j - 1), RowAbs(res.sample[j].source_row_index + 1))

\* a / b = c / d for a, c >= 0 and b, d > 0, by the quotients and
\* remainders of the two divisions
RECURSIVE SameQuotient(_, _, _, _)
SameQuotient(a, b, c, d) ==
    /\ a \div b = c \div d
    /\ (a % b = 0) = (c % d = 0)
    /\ a % b # 0 => SameQuotient(b, a % b, d, c % d)

\* pct is 100 * cov / pop in float arithmetic, 0 when pop is 0
IsPercentOf(pct, cov, pop) ==
    CASE pop = Fin(0) -> pct.k = "fin" /\ pct.num = 0
      [] pop.k = "fin" /\ cov.k = "fin" ->
           pct.k = "fin" /\ SameQuotient(pct.num, pct.den, 100 * cov.v, pop.v)
      [] pop.k = "fin" -> pct.k = "inf"
      [] cov.k = "fin" -> pct.k = "fin" /\ pct.num = 0
      [] OTHER -> pct.k = "nan"

\* C13: in both modes population_size and population_balance_abs are the
\* count and the sum of amount_abs of the filtered population, coverage_abs
\* is the sum of amount_abs over the returned sample and coverage_percent
\* is 100 * coverage_abs / population_balance_abs, 0 when the balance is 0.
C13_CoverageStatistics ==
    \A res \in {batch, streamRes} :
        Ok(res) =>
            /\ res.stats[1].population_size = Cardinality(Population)
            /\ res.stats[1].population_balance_abs = RowSum(Population, Len(rows))
            /\ res.stats[1].coverage_abs = SampleSum(res, Len(res.sample))
            /\ IsPercentOf(res.stats[1].coverage_percent, res.stats[1].coverage_abs,
                           res.stats[1].population_balance_abs)

\* both modes returned a sample that covers a part of a finite population
C13_Witness ==
    \A res \in {batch, streamRes} :
        /\ Ok(res)
        /\ res.stats[1].population_balance_abs.k = "fin"
        /\ res.stats[1].coverage_abs.k = "fin"
        /\ res.stats[1].coverage_abs.v > 0
        /\ res.stats[1].coverage_abs.v < res.stats[1].population_balance_abs.v
        /\ res.stats[1].coverage_percent.num > 0

-----------------------------------------------------------------------------
\* C14: for every non-empty filtered population with non-negative amounts,
\* in both modes, 0 <= coverage_percent <= 100 and coverage_abs <=
\* population_balance_abs; every sample record is a record of the filtered
\* population and no population record is in the sample twice.
C14_CoverageBounded ==
    \A res \in {batch, streamRes} :
        (Ok(res) /\ Population # {} /\ \A i \in Population : RowAbs(i).k # "nan") =>
            /\ res.stats[1].coverage_percent.k = "fin"
            /\ res.stats[1].coverage_percent.num >= 0
            /\ res.stats[1].coverage_percent.num <= 100 * res.stats[1].coverage_percent.den
            /\ FGe(res.stats[1].population_balance_abs, res.stats[1].coverage_abs)
            /\ \A j \in 1..Len(res.sample) :
                  res.sample[j].source_row_index + 1 \in Population
            /\ \A j1, j2 \in 1..Len(res.sample) :
                  res.sample[j1].source_row_index = res.sample[j2].source_row_index
                      => j1 = j2

-----------------------------------------------------------------------------
\* the qualifying rows (filtered, not high-value) among rows 1..n, in order
RECURSIVE QualifyingRows(_)
QualifyingRows(n) ==
    IF n = 0 THEN <<>>
    ELSE IF n \in Candidates THEN Append(QualifyingRows(n - 1), n)
    ELSE QualifyingRows(n - 1)

\* the seeded generator after m draws
RECURSIVE RngAfter(_)
RngAfter(m) ==
    IF m = 0 THEN Random(params.random_seed) ELSE RngNext(RngAfter(m - 1))

\* Algorithm R over the first n records of q with k slots: the first k
\* fill the slots in order; for record n > k the draw number n - k gives j
\* in [0, n - 1] and the record replaces slot j iff j < k
RECURSIVE AlgorithmR(_, _, _)
AlgorithmR(q, n, k) ==
    IF n = 0 THEN <<>>
    ELSE LET before == AlgorithmR(q, n - 1, k)
             j == RandInt(RngAfter(n - k - 1), 0, n - 1)
         IN IF n <= k THEN Append(before, q[n])
            ELSE IF j < k THEN [before EXCEPT ![j + 1] = q[n]]
            ELSE before

\* pass 2 is running, or the call has returned after a pass 2
InOrAfterPass2 ==
    \/ stream.pc = "pass2"
    \/ stream.pc = "returned" /\ stream.opens = 2

\* C15: pass 2 follows Algorithm R with k the target size: after any
\* number of rows the reservoir holds what Algorithm R gives for the
\* qualifying records read so far, seen counts them, and the generator
\* has been consulted once for each qualifying record after the k-th and
\* for no other record.
C15_AlgorithmR ==
    InOrAfterPass2 =>
        LET q == QualifyingRows(stream.idx)
            n == Len(q)
        IN /\ stream.k >= 1
           /\ stream.seen = n
           /\ [j \in 1..Len(stream.reservoir) |->
                  stream.reservoir[j].source_row_index + 1] = AlgorithmR(q, n, stream.k)
           /\ \A j \in 1..Len(stream.reservoir) :
                  stream.reservoir[j].selection_type = "Random"
           /\ stream.rng = RngAfter(Max(0, n - stream.k))

\* a call returned after a pass 2 that skipped a high-value record, saw
\* more qualifying records than slots and replaced the first record kept
C15_Witness ==
    /\ stream.pc = "returned" /\ stream.opens = 2
    /\ stream.k >= 1 /\ stream.seen > stream.k
    /\ \E i \in Population : ExceedsInterval(i)
    /\ stream.reservoir[1].source_row_index + 1 # QualifyingRows(Len(rows))[1]

-----------------------------------------------------------------------------
\* no streaming call is in progress
StreamAtRest == stream.pc \in {"idle", "returned", "raised"}

-----------------------------------------------------------------------------
\* C18: the exclusion counters are passed through exactly: population_size
\* counts the included records, the two exclusion counters together count
\* the excluded records, each once, and the three add up to the number of
\* input records in batch mode and to the number of rows whose amount
\* parses in streaming mode.
C18_CountersAddUp ==
    /\ Ok(batch) =>
          /\ batch.stats[1].population_size + batch.stats[1].excluded_zero_amounts
                + batch.stats[1].excluded_due_to_balance = Len(cleaned.records)
          /\ batch.stats[1].population_size = Cardinality(Population)
          /\ batch.stats[1].excluded_zero_amounts + batch.stats[1].excluded_due_to_balance
                = Len(cleaned.records) - Cardinality(Population)
    /\ Ok(streamRes) =>
          /\ streamRes.stats[1].population_size + streamRes.stats[1].excluded_zero_amounts
                + streamRes.stats[1].excluded_due_to_balance = Cardinality(ParsedRows)
          /\ streamRes.stats[1].population_size = Cardinality(Population)
          /\ streamRes.stats[1].excluded_zero_amounts
                + streamRes.stats[1].excluded_due_to_balance
                = Cardinality(ParsedRows \ Population)

\* both modes returned, with a record included, a record excluded as zero
\* and a record excluded for its balance
C18_Witness ==
    \A res \in {batch, streamRes} :
        /\ Ok(res)
        /\ res.stats[1].population_size >= 1
        /\ res.stats[1].excluded_zero_amounts >= 1
        /\ res.stats[1].excluded_due_to_balance >= 1

-----------------------------------------------------------------------------
\* C19: in batch mode the candidates of the random selector are the
\* filtered records that are not high-value, matched by row index also when
\* ids are null or shared: every filtered record is labelled 'High Value'
\* or is a candidate, never both; the records drawn are candidates; and
\* the selector sizes the draw on the balance and the number of all the
\* candidates.
C19_CandidatesByRowIndex ==
    Ok(batch) =>
        /\ \A i \in Population :
              (i \in Candidates) = ~Labelled(batch, i, "High Value")
        /\ \A i \in 1..Len(rows) :
              Labelled(batch, i, "Random") => i \in Candidates
        /\ NumLabelled(batch, "Random") =
              IF CandidateBalance(Len(rows)) = 0 THEN 0
              ELSE Min(SampleSize(Fin(CandidateBalance(Len(rows))), Interval).value,
                       Cardinality(Candidates))

\* a high-value record and a drawn candidate share their id, and a
\* candidate without id was drawn
C19_Witness ==
    /\ Ok(batch)
    /\ \E h, c, n \in Population :
          /\ Labelled(batch, h, "High Value")
          /\ Labelled(batch, c, "Random")
          /\ rows[c].transaction_id = rows[h].transaction_id
          /\ Labelled(batch, n, "Random")
          /\ rows[n].transaction_id = ""

-----------------------------------------------------------------------------
\* record t is the record the cleaner built from its row, unlabelled
IsCleanedRow(t) ==
    LET i == t.source_row_index + 1
    IN /\ i \in ParsedRows
       /\ t.selection_type = "None"
       /\ t.transaction_id = (IF rows[i].transaction_id = "" THEN "None"
                              ELSE rows[i].transaction_id)
       /\ t.amount_signed = rows[i].amount
       /\ t.amount_abs = RowAbs(i)
       /\ t.balance_category = RowCategory(i)

-----------------------------------------------------------------------------
(* Terms of the properties of the REST API *)

\* the last response answers a request of the endpoint
Answered(endpoint) == response.endpoint = endpoint

\* the metadata record the request read says the report is ready
ReportReady(file) == file.k = "json" /\ file.status = DONE /\ file.report_path # Null

-----------------------------------------------------------------------------
\* the rows (from 1) of the sample records under the label, in sample order
RowsLabelled(res, label) ==
    LET Under(t) == t.selection_type = label
        part == SelectSeq(res.sample, Under)
    IN [j \in 1..Len(part) |-> part[j].source_row_index + 1]

\* the sequence of numbers is strictly increasing
Increasing(s) == \A j1, j2 \in 1..Len(s) : j1 < j2 => s[j1] < s[j2]

\* the number of reservoir slots of a streaming run on the rows
ReservoirSlots ==
    Max(0, SampleSize(Fin(CandidateBalance(Len(rows))), Interval).value)

\* C22: a returned sample holds its high-value records first, in row
\* order, then its random records, no random record before a high-value
\* one; the random records are in the order of the seeded draw from the
\* candidates (batch) or in the order of the reservoir's slots (streaming).
C22_HighValueFirst ==
    /\ \A res \in {batch, streamRes} :
          Ok(res) =>
              /\ \A j1, j2 \in 1..Len(res.sample) :
                    (j1 < j2 /\ res.sample[j2].selection_type = "High Value")
                        => res.sample[j1].selection_type = "High Value"
              /\ Increasing(RowsLabelled(res, "High Value"))
    /\ Ok(batch) =>
          RowsLabelled(batch, "Random") =
              RngSample(Random(params.random_seed), QualifyingRows(Len(rows)),
                        NumLabelled(batch, "Random"))
    /\ Ok(streamRes) =>
          LET q == QualifyingRows(Len(rows))
          IN RowsLabelled(streamRes, "Random") = AlgorithmR(q, Len(q), ReservoirSlots)

\* both modes returned a sample in which a random record comes from an
\* earlier row than a high-value record
C22_Witness ==
    \A res \in {batch, streamRes} :
        /\ Ok(res)
        /\ \E h, r \in 1..Len(rows) :
              /\ r < h
              /\ Labelled(res, h, "High Value")
              /\ Labelled(res, r, "Random")

-----------------------------------------------------------------------------
\* the streaming call has ended its pass 2
Pass2Done == stream.pc = "returned" /\ stream.opens = 2

\* remaining_abs as line 165 computes it from the totals of pass 1
RemainingAbs == FSub(stream.total_abs, Sum(AmountsAbs(stream.high_value)))

\* C23: the two passes of a streaming run agree: at the end of pass 2,
\* seen is the population size of pass 1 less its high-value records, the
\* reservoir holds qualifying rows only, and the remaining balance pass 1
\* computed (total_abs less the high-value sum) is the sum of amount_abs
\* over the qualifying records of pass 2.
C23_PassesAgree ==
    Pass2Done =>
        /\ stream.seen = stream.population_size - Len(stream.high_value)
        /\ stream.seen = Cardinality(Candidates)
        /\ \A j \in 1..Len(stream.reservoir) :
              stream.reservoir[j].source_row_index + 1 \in Candidates
        /\ RemainingAbs = Fin(CandidateBalance(Len(rows)))

-----------------------------------------------------------------------------
\* C24: at every step of pass 2 the reservoir holds min(seen, k) records
\* of distinct rows, each a row already read in this pass that passes the
\* filter and is not above the interval, each labelled 'Random'; at the
\* end of the pass the reservoir is full: its size is k.
C24_ReservoirFilled ==
    /\ InOrAfterPass2 =>
          /\ Len(stream.reservoir) = Min(stream.seen, stream.k)
          /\ \A j \in 1..Len(stream.reservoir) :
                /\ stream.reservoir[j].source_row_index + 1 \in Candidates
                /\ stream.reservoir[j].source_row_index + 1 <= stream.idx
                /\ ~FGtQ(stream.reservoir[j].amount_abs, stream.interval)
                /\ stream.reservoir[j].selection_type = "Random"
          /\ \A j1, j2 \in 1..Len(stream.reservoir) :
                stream.reservoir[j1].source_row_index
                    = stream.reservoir[j2].source_row_index => j1 = j2
    /\ Pass2Done => Len(stream.reservoir) = stream.k

-----------------------------------------------------------------------------
\* C25: in both modes, a sample returned for a filtered population that is
\* not empty and has a total absolute balance above 0 is not empty: it
\* holds a high-value record, or the balance of the candidates is positive
\* and it holds a random record.
C25_SampleNotEmpty ==
    \A res \in {batch, streamRes} :
        (/\ Ok(res)
         /\ res.stats[1].population_size >= 1
         /\ FGt0(res.stats[1].population_balance_abs))
            => /\ Len(res.sample) >= 1
               /\ \/ NumLabelled(res, "High Value") >= 1
                  \/ /\ CandidateBalance(Len(rows)) > 0
                     /\ NumLabelled(res, "Random") >= 1

-----------------------------------------------------------------------------
\* the sequences of statuses a job's metadata may have held
Lifecycles ==
    {<<>>, <<PENDING>>, <<PENDING, PROCESSING>>, <<PENDING, PROCESSING, DONE>>,
     <<PENDING, PROCESSING, FAILED>>}

\* the job's metadata.json holds a whole record with the status
Persisted(job_id, status) ==
    store[job_id].metadata.k = "json" /\ store[job_id].metadata.status = status

\* C26: the statuses written to a job's metadata follow pending ->
\* processing -> done or failed and nothing after done or failed; done is
\* written only after exit code 0, failed only after a non-zero exit or an
\* exception and with an error message; the record holds a report_path
\* exactly when its status is done.
C26_StatusLifecycle ==
    \A j \in JobIds :
        /\ status_log[j] \in Lifecycles
        /\ store[j].metadata.k = "json" =>
              /\ status_log[j] # <<>>
              /\ store[j].metadata.status = status_log[j][Len(status_log[j])]
              /\ (store[j].metadata.report_path # Null) = Persisted(j, DONE)
        /\ Persisted(j, DONE) => returncode[j] = "0"
        /\ Persisted(j, FAILED) =>
              /\ returncode[j] \in {"1", "OSError"}
              /\ store[j].metadata.error_message # Null

\* one job is done and another has failed
C26_Witness ==
    \E j1, j2 \in JobIds : Persisted(j1, DONE) /\ Persisted(j2, FAILED)

-----------------------------------------------------------------------------
\* enqueue_job accepted the job
Accepted(job_id) == status_log[job_id] # <<>>

\* the job's metadata says done or failed
Finished(job_id) == Persisted(job_id, DONE) \/ Persisted(job_id, FAILED)

\* C27: once the worker task is started (and never stopped), every job
\* that enqueue_job accepted eventually is done or failed; no failure ends
\* the worker loop; and the jobs are taken in the order they were
\* enqueued.
C27_EveryJobFinishes ==
    /\ \A j \in 1..MaxJobs :
          (Accepted(j) /\ worker.pc # "not_started") ~> Finished(j)
    /\ [](worker.pc # "ended")
    /\ [](\A j1, j2 \in 1..MaxJobs :
             (j1 < j2 /\ Len(status_log[j2]) > 1)
                 => (Len(status_log[j1]) > 1 \/ store[j1].metadata.k = "empty"))

-----------------------------------------------------------------------------
\* C28: a request that reads a job while the worker thread rewrites the
\* job's metadata observes a whole record, the one before or the one after
\* the update, and does not fail: as long as no write has failed, no job
\* query has found a metadata.json that exists and holds no record, and
\* none was answered with an internal server error.
C28_WholeRecordObserved ==
    faults = 0 =>
        /\ response.status_code # 500
        /\ response.file.k # "empty"

-----------------------------------------------------------------------------
\* a step of a read-only job query
JobQuery == GetJobRequest \/ DownloadReportRequest \/ ListJobs

\* C29: the read-only job queries (load_job behind GET /jobs/{id} and the
\* report endpoint, list_jobs) create, modify and delete nothing in the
\* storage root, also when the id does not exist and load_job ends with
\* FileNotFoundError.
C29_QueriesLeaveStoreUnchanged == [][JobQuery => store' = store]_vars

-----------------------------------------------------------------------------
\* the rows whose amount column is blank, or holds a text float() rejects
MissingRows == {i \in 1..Len(rows) : rows[i].amount.k = "blank"}

InvalidRows == {i \in 1..Len(rows) : rows[i].amount.k = "junk"}

\* the records streaming mode has built so far
StreamRecords ==
    {stream.high_value[j] : j \in 1..Len(stream.high_value)}
        \cup {stream.reservoir[j] : j \in 1..Len(stream.reservoir)}
        \cup {streamRes.sample[j] : j \in 1..Len(streamRes.sample)}

\* C30: the cleaner drops exactly the rows whose amount is missing or
\* unparseable: the counts of the report add up, the records kept are the
\* other rows in file order, each with amount_abs = |amount_signed|, its
\* category by the sign of the amount and its source_row_index the
\* position of the row in the file, dropped rows counted; streaming mode
\* gives the record of a row the same index.
C30_CleanerDropsExactly ==
    cleaned.done =>
        /\ cleaned.report.total_rows_raw = Len(rows)
        /\ cleaned.report.missing_amount = Cardinality(MissingRows)
        /\ cleaned.report.invalid_amount_format = Cardinality(InvalidRows)
        /\ cleaned.report.total_rows_cleaned =
              cleaned.report.total_rows_raw
                  - (cleaned.report.missing_amount + cleaned.report.invalid_amount_format)
        /\ cleaned.report.excluded_due_to_amount =
              cleaned.report.missing_amount + cleaned.report.invalid_amount_format
        /\ Len(cleaned.records) = cleaned.report.total_rows_cleaned
        /\ {cleaned.records[j].source_row_index + 1 : j \in 1..Len(cleaned.records)}
              = (1..Len(rows)) \ (MissingRows \cup InvalidRows)
        /\ Increasing([j \in 1..Len(cleaned.records) |->
                          cleaned.records[j].source_row_index])
        /\ \A j \in 1..Len(cleaned.records) :
              LET t == cleaned.records[j]
              IN /\ t.amount_signed = rows[t.source_row_index + 1].amount
                 /\ t.amount_abs = FAbs(t.amount_signed)
                 /\ (t.balance_category = "credit") = FGt0(t.amount_signed)
                 /\ (t.balance_category = "debit") = FLt0(t.amount_signed)
                 /\ (t.balance_category = "zero") = FEq0(t.amount_signed)
        /\ \A s \in StreamRecords :
              \E j \in 1..Len(cleaned.records) :
                  cleaned.records[j] = [s EXCEPT !.selection_type = "None"]

\* a file whose first row has no amount and whose second row has a text
\* that is no number was cleaned, and streaming mode returned the record of
\* a later row
C30_Witness ==
    /\ cleaned.done
    /\ 1 \in MissingRows /\ 2 \in InvalidRows
    /\ Ok(streamRes)
    /\ \E j \in 1..Len(streamRes.sample) : streamRes.sample[j].source_row_index = 2

=============================================================================
